---- MODULE Spec2Model ----
(***************************************************************************)
(* A model of android-view's peer registry (src/src/view.rs), of the      *)
(* input-connection dispatch built on it and the provided methods of the   *)
(* InputConnection trait (src/src/ime.rs), and of the demo editor's index  *)
(* conversions, blink timer and key handling (src/demo/src/text.rs).       *)
(*                                                                         *)
(* Registry.  NEXT_PEER_ID is an atomic counter, PEER_MAP a BTreeMap       *)
(* behind one std::sync::Mutex.  Host threads call register_view_peer,     *)
(* with_peer (through the on_* natives), the input-connection natives and  *)
(* on_detached_from_window.  A thread's call is cut at its synchronisation *)
(* points: the fetch_add, the PEER_MAP.lock(), and the return that drops   *)
(* the guard.  What happens between taking the lock and the next of these  *)
(* points is invisible to the other threads and is one step.               *)
(*                                                                         *)
(* A failed unwrap() is a panic.  The guard, if the thread holds one, is   *)
(* dropped while panicking, which poisons the mutex and frees it; the      *)
(* thread never returns to its caller.  (Where the panic reaches an        *)
(* extern "system" frame the process aborts instead: every behaviour of    *)
(* that build is a prefix of one modelled here.)                           *)
(***************************************************************************)
EXTENDS Integers, Sequences, FiniteSets, TLC

\* Bounds of the model.
NThreads == 2
MaxPeers == 2
MaxLen == 3
MaxCalls == 4
MaxTicks == 2
MaxGeneration == 1
MaxImeLog == 4

Threads == 1..NThreads
Handles == 0..(MaxPeers - 1)

VARIABLES
    NEXT_PEER_ID,   \* view.rs:171, the next handle value
    PEER_MAP,       \* view.rs:172, the table: handle -> peer object
    lock,           \* the threads holding PEER_MAP's mutex: {} or {t}
    poisoned,       \* whether that mutex is poisoned
    pc,             \* per thread: where its registry call stands
    fn,             \* per thread: the registry function it is in
    id,             \* per thread: the handle it passed, or was allocated
    inner,          \* per thread: the registry call its callback made
    returned,       \* history: the handles register_view_peer returned, in order
    hookCount,      \* history: per handle, how often its teardown hook was invoked
    calls,          \* history: how many registry calls the host has begun
    overlap,        \* history: whether two register_view_peer calls overlapped
    raw_text,       \* text.rs:81, the editor's text: a sequence of scalar values
    call,           \* the last index conversion: function, argument, result
    origin,         \* the conversion whose result was the argument of call
    start_time,     \* text.rs:34, Option<Instant>: None or Some(instant)
    blink_period,   \* text.rs:35, a Duration
    cursor_visible, \* text.rs:32
    now,            \* what Instant::now() returns
    ticks,          \* history: how often the clock has moved
    op,             \* the last operation on the Editor and what it returned
    editor_generation, \* text.rs:295, the token self.editor.generation() holds
    ic_log,         \* history: the calls an InputConnection implementor received
    ic_op,          \* the last InputConnection method the host called
    ime             \* an InputConnection implementor's editing state

regVars == <<NEXT_PEER_ID, PEER_MAP, lock, poisoned, pc, fn, id, inner,
             returned, hookCount, calls, overlap>>
idxVars == <<raw_text, call, origin>>
edVars == <<start_time, blink_period, cursor_visible, now, ticks, op,
           editor_generation>>
imeVars == <<ic_log, ic_op, ime>>
vars == <<NEXT_PEER_ID, PEER_MAP, lock, poisoned, pc, fn, id, inner,
          returned, hookCount, calls, overlap, raw_text, call, origin,
          start_time, blink_period, cursor_visible, now, ticks, op,
          editor_generation,
          ic_log, ic_op, ime>>

NoCall == [fn |-> "none", arg |-> 0, ret |-> 0]
NoInner == [fn |-> "none", id |-> 0]

----------------------------------------------------------------------------
(* The registry: view.rs                                                   *)

\* Box::new(peer): the peer object a thread constructs and registers.
Peer(t) == "peer"

\* AtomicI64::fetch_add(1): the counter's next value.
FetchAddStuck(n) == n
FetchAddSkip(n) == n + 2
FetchAdd(n) == n + 1

\* BTreeMap::insert.
MapInsert(m, k, v) == [x \in (DOMAIN m) \cup {k} |-> IF x = k THEN v ELSE m[x]]

\* BTreeMap::remove: the map without the key.
MapKeep(m, k) == m
MapRemove(m, k) == [x \in (DOMAIN m) \ {k} |-> m[x]]

\* PEER_MAP.lock(): the mutex is free.
LockFree == lock = {}

\* PEER_MAP.lock().unwrap(): lock() answers Err(PoisonError) once a thread
\* has panicked with the guard alive, and unwrap() panics on it.
PoisonCleared == FALSE
Poisoned == poisoned

\* The guard is dropped: the mutex is free again.
GuardLeaked(t) == lock
Unlocked(t) == lock \ {t}

\* The guard with_peer holds while its callback runs.
GuardDropped(t) == {}
GuardHeld(t) == {t}

\* The guard on_detached_from_window holds while the teardown hook runs.
DetachGuardHeld(t) == {t}

Max(S) == CHOOSE x \in S : \A y \in S : y <= x
MaxReturned == IF returned = <<>> THEN -1
               ELSE Max({returned[i] : i \in 1..Len(returned)})

RegInit ==
    /\ NEXT_PEER_ID = 0
    /\ PEER_MAP = << >>
    /\ lock = {}
    /\ poisoned = FALSE
    /\ pc = [t \in Threads |-> "idle"]
    /\ fn = [t \in Threads |-> "none"]
    /\ id = [t \in Threads |-> 0]
    /\ inner = [t \in Threads |-> NoInner]
    /\ returned = << >>
    /\ hookCount = [h \in Handles |-> 0]
    /\ calls = 0
    /\ overlap = FALSE

\* The thread is back at its caller.
Done(t) ==
    /\ pc' = [pc EXCEPT ![t] = "idle"]
    /\ fn' = [fn EXCEPT ![t] = "none"]
    /\ id' = [id EXCEPT ![t] = 0]

\* The thread panics: it never returns (it keeps fn and id for the record).
Panic(t) ==
    /\ pc' = [pc EXCEPT ![t] = "panicked"]
    /\ UNCHANGED <<fn, id>>

\* register_view_peer, line 409: the counter is read and advanced.
register_view_peer_fetch_add(t) ==
    /\ pc[t] = "idle"
    /\ calls < MaxCalls
    /\ NEXT_PEER_ID < MaxPeers
    /\ id' = [id EXCEPT ![t] = NEXT_PEER_ID]
    /\ NEXT_PEER_ID' = FetchAdd(NEXT_PEER_ID)
    /\ fn' = [fn EXCEPT ![t] = "register_view_peer"]
    /\ pc' = [pc EXCEPT ![t] = "lock"]
    /\ calls' = calls + 1
    /\ overlap' = (overlap \/ \E u \in Threads \ {t} :
                                 fn[u] = "register_view_peer" /\ pc[u] = "lock")
    /\ UNCHANGED <<PEER_MAP, lock, poisoned, inner, returned, hookCount>>

\* register_view_peer, lines 410-412: lock, insert, drop the guard, return id.
register_view_peer_insert(t) ==
    /\ pc[t] = "lock" /\ fn[t] = "register_view_peer"
    /\ LockFree
    /\ IF Poisoned
       THEN /\ Panic(t)
            /\ UNCHANGED <<PEER_MAP, returned>>
       ELSE /\ PEER_MAP' = MapInsert(PEER_MAP, id[t], Peer(t))
            /\ returned' = Append(returned, id[t])
            /\ Done(t)
    /\ UNCHANGED <<NEXT_PEER_ID, lock, poisoned, inner, hookCount, calls, overlap>>

\* An on_* native calls with_peer(h, f), lines 183-406.
with_peer_call(t, h) ==
    /\ pc[t] = "idle"
    /\ calls < MaxCalls
    /\ fn' = [fn EXCEPT ![t] = "with_peer"]
    /\ id' = [id EXCEPT ![t] = h]
    /\ pc' = [pc EXCEPT ![t] = "lock"]
    /\ calls' = calls + 1
    /\ UNCHANGED <<NEXT_PEER_ID, PEER_MAP, lock, poisoned, inner, returned,
                   hookCount, overlap>>

\* with_peer, lines 178-180: lock().unwrap(), get_mut(&id).unwrap(), then f
\* starts on the peer with the guard alive.
with_peer_lock(t) ==
    /\ pc[t] = "lock" /\ fn[t] = "with_peer"
    /\ LockFree
    /\ IF Poisoned
       THEN Panic(t) /\ UNCHANGED <<lock, poisoned>>
       ELSE IF id[t] \notin DOMAIN PEER_MAP
       THEN Panic(t) /\ poisoned' = TRUE /\ UNCHANGED lock
       ELSE /\ lock' = GuardHeld(t)
            /\ pc' = [pc EXCEPT ![t] = "callback"]
            /\ UNCHANGED <<poisoned, fn, id>>
    /\ UNCHANGED <<NEXT_PEER_ID, PEER_MAP, inner, returned, hookCount, calls, overlap>>

\* with_peer, line 181: f has returned, the guard is dropped.
with_peer_return(t) ==
    /\ pc[t] = "callback" /\ fn[t] = "with_peer"
    /\ lock' = Unlocked(t)
    /\ Done(t)
    /\ UNCHANGED <<NEXT_PEER_ID, PEER_MAP, poisoned, inner, returned,
                   hookCount, calls, overlap>>

\* on_detached_from_window(h) is called, line 351.
on_detached_from_window_call(t, h) ==
    /\ pc[t] = "idle"
    /\ calls < MaxCalls
    /\ fn' = [fn EXCEPT ![t] = "on_detached_from_window"]
    /\ id' = [id EXCEPT ![t] = h]
    /\ pc' = [pc EXCEPT ![t] = "lock"]
    /\ calls' = calls + 1
    /\ UNCHANGED <<NEXT_PEER_ID, PEER_MAP, lock, poisoned, inner, returned,
                   hookCount, overlap>>

\* on_detached_from_window, lines 356-358: lock().unwrap(),
\* remove(&peer).unwrap(), then the peer's teardown hook starts; the guard
\* `map` lives to the end of the function.
on_detached_from_window_lock(t) ==
    /\ pc[t] = "lock" /\ fn[t] = "on_detached_from_window"
    /\ LockFree
    /\ IF Poisoned
       THEN Panic(t) /\ UNCHANGED <<lock, poisoned, PEER_MAP, hookCount>>
       ELSE IF id[t] \notin DOMAIN PEER_MAP
       THEN Panic(t) /\ poisoned' = TRUE /\ UNCHANGED <<lock, PEER_MAP, hookCount>>
       ELSE /\ PEER_MAP' = MapRemove(PEER_MAP, id[t])
            /\ hookCount' = [hookCount EXCEPT ![id[t]] = @ + 1]
            /\ lock' = DetachGuardHeld(t)
            /\ pc' = [pc EXCEPT ![t] = "hook"]
            /\ UNCHANGED <<poisoned, fn, id>>
    /\ UNCHANGED <<NEXT_PEER_ID, inner, returned, calls, overlap>>

\* on_detached_from_window, line 359: the hook has returned, the peer and
\* then the guard are dropped.
on_detached_from_window_return(t) ==
    /\ pc[t] = "hook" /\ fn[t] = "on_detached_from_window"
    /\ lock' = Unlocked(t)
    /\ Done(t)
    /\ UNCHANGED <<NEXT_PEER_ID, PEER_MAP, poisoned, inner, returned,
                   hookCount, calls, overlap>>

----------------------------------------------------------------------------
(* The input-connection dispatch: ime.rs                                   *)

\* An input-connection native calls with_input_connection(h, f), lines
\* 335-340, which is with_input_connection_and_default(h, T::default(), f).
with_input_connection_call(t, h) ==
    /\ pc[t] = "idle"
    /\ calls < MaxCalls
    /\ fn' = [fn EXCEPT ![t] = "with_input_connection"]
    /\ id' = [id EXCEPT ![t] = h]
    /\ pc' = [pc EXCEPT ![t] = "lock"]
    /\ calls' = calls + 1
    /\ UNCHANGED <<NEXT_PEER_ID, PEER_MAP, lock, poisoned, inner, returned,
                   hookCount, overlap>>

\* with_peer_and_default(id, default, f): the table lock is taken, the handle
\* looked up and f run on the peer under the lock.  For a handle that is not in
\* the table the call either fails like with_peer or returns the default
\* without running f.
with_peer_and_default_lock(t) ==
    /\ pc[t] = "lock" /\ fn[t] = "with_input_connection"
    /\ LockFree
    /\ IF Poisoned
       THEN Panic(t) /\ UNCHANGED <<lock, poisoned>>
       ELSE IF id[t] \notin DOMAIN PEER_MAP
       THEN \/ Panic(t) /\ poisoned' = TRUE /\ UNCHANGED lock
            \/ Done(t) /\ UNCHANGED <<lock, poisoned>>
       ELSE /\ lock' = GuardHeld(t)
            /\ pc' = [pc EXCEPT ![t] = "callback"]
            /\ UNCHANGED <<poisoned, fn, id>>
    /\ UNCHANGED <<NEXT_PEER_ID, PEER_MAP, inner, returned, hookCount, calls, overlap>>

\* with_input_connection_and_default, line 332: f has returned on
\* peer.as_input_connection(), the guard is dropped.
with_input_connection_return(t) ==
    /\ pc[t] = "callback" /\ fn[t] = "with_input_connection"
    /\ lock' = Unlocked(t)
    /\ Done(t)
    /\ UNCHANGED <<NEXT_PEER_ID, PEER_MAP, poisoned, inner, returned,
                   hookCount, calls, overlap>>

----------------------------------------------------------------------------
(* A peer's callback, or its teardown hook, calls the registry on its own  *)
(* thread.  register_view_peer first advances the counter (line 409); each *)
(* of the calls then reaches PEER_MAP.lock() on a mutex its own thread     *)
(* holds, which std::sync::Mutex answers by never returning: the thread    *)
(* deadlocks, or it panics (and the guard is dropped while panicking).     *)

InnerFns == {"register_view_peer", "with_peer", "on_detached_from_window"}

reenter(t, f) ==
    /\ pc[t] \in {"callback", "hook"}
    /\ IF f = "register_view_peer"
       THEN /\ NEXT_PEER_ID < MaxPeers
            /\ NEXT_PEER_ID' = FetchAdd(NEXT_PEER_ID)
            /\ inner' = [inner EXCEPT ![t] = [fn |-> f, id |-> NEXT_PEER_ID]]
       ELSE /\ UNCHANGED NEXT_PEER_ID
            /\ inner' = [inner EXCEPT ![t] = [fn |-> f, id |-> 0]]
    /\ IF lock = {t}
       THEN \/ /\ pc' = [pc EXCEPT ![t] = "blocked"]
               /\ UNCHANGED <<lock, poisoned>>
            \/ /\ pc' = [pc EXCEPT ![t] = "panicked"]
               /\ lock' = Unlocked(t)
               /\ poisoned' = TRUE
       ELSE \* the guard is not held: the inner call takes the lock and returns
            /\ LockFree
            /\ UNCHANGED <<pc, lock, poisoned>>
    /\ UNCHANGED <<PEER_MAP, fn, id, returned, hookCount, calls, overlap>>

----------------------------------------------------------------------------

RegNext ==
    \E t \in Threads :
        \/ register_view_peer_fetch_add(t)
        \/ register_view_peer_insert(t)
        \/ \E h \in Handles : with_peer_call(t, h)
        \/ with_peer_lock(t)
        \/ with_peer_return(t)
        \/ \E h \in Handles : with_input_connection_call(t, h)
        \/ with_peer_and_default_lock(t)
        \/ with_input_connection_return(t)
        \/ \E h \in Handles : on_detached_from_window_call(t, h)
        \/ on_detached_from_window_lock(t)
        \/ on_detached_from_window_return(t)
        \/ \E f \in InnerFns : reenter(t, f)

----------------------------------------------------------------------------
(* The index conversions: demo/src/text.rs                                 *)

\* The scalar values texts are drawn from: one of each UTF-8 width
\* ("a", "e" with acute, the euro sign, an emoji outside the BMP).
Chars == {97, 233, 8364, 128512}

Texts == UNION {[1..n -> Chars] : n \in 0..MaxLen}

\* char::len_utf8 and char::len_utf16, as called in the loops.
\* (len_utf16_bmp: every scalar taken for one code unit.)
len_utf16_bmp(c) == 1
len_utf8(c) == IF c < 128 THEN 1 ELSE IF c < 2048 THEN 2 ELSE IF c < 65536 THEN 3 ELSE 4
len_utf16(c) == IF c < 65536 THEN 1 ELSE 2

\* The loop of utf8_to_utf16_index, lines 79-88: k is the iterator's position.
RECURSIVE utf8_to_utf16_loop(_, _, _, _, _)
utf8_to_utf16_loop(text, k, utf8_index, utf16_len_so_far, utf8_len_so_far) ==
    IF k > Len(text) \/ utf8_len_so_far >= utf8_index
    THEN utf16_len_so_far
    ELSE utf8_to_utf16_loop(text, k + 1, utf8_index,
                            utf16_len_so_far + len_utf16(text[k]),
                            utf8_len_so_far + len_utf8(text[k]))

\* The same loop breaking before a scalar that ends after the index.
RECURSIVE utf8_to_utf16_loop_floor(_, _, _, _, _)
utf8_to_utf16_loop_floor(text, k, utf8_index, utf16_len_so_far, utf8_len_so_far) ==
    IF k > Len(text) \/ utf8_len_so_far + len_utf8(text[k]) > utf8_index
    THEN utf16_len_so_far
    ELSE utf8_to_utf16_loop_floor(text, k + 1, utf8_index,
                                  utf16_len_so_far + len_utf16(text[k]),
                                  utf8_len_so_far + len_utf8(text[k]))

\* The same loop assigning the scalar's width instead of adding it.
RECURSIVE utf8_to_utf16_loop_assign(_, _, _, _, _)
utf8_to_utf16_loop_assign(text, k, utf8_index, utf16_len_so_far, utf8_len_so_far) ==
    IF k > Len(text) \/ utf8_len_so_far >= utf8_index
    THEN utf16_len_so_far
    ELSE utf8_to_utf16_loop_assign(text, k + 1, utf8_index,
                                   len_utf16(text[k]),
                                   utf8_len_so_far + len_utf8(text[k]))

utf8_to_utf16_index_floor(text, utf8_index) ==
    utf8_to_utf16_loop_floor(text, 1, utf8_index, 0, 0)
utf8_to_utf16_index_assign(text, utf8_index) ==
    utf8_to_utf16_loop_assign(text, 1, utf8_index, 0, 0)
utf8_to_utf16_index(text, utf8_index) == utf8_to_utf16_loop(text, 1, utf8_index, 0, 0)

\* The loop of utf16_to_utf8_index, lines 92-101.
RECURSIVE utf16_to_utf8_loop(_, _, _, _, _)
utf16_to_utf8_loop(text, k, utf16_index, utf16_len_so_far, utf8_len_so_far) ==
    IF k > Len(text) \/ utf16_len_so_far >= utf16_index
    THEN utf8_len_so_far
    ELSE utf16_to_utf8_loop(text, k + 1, utf16_index,
                            utf16_len_so_far + len_utf16(text[k]),
                            utf8_len_so_far + len_utf8(text[k]))

\* The same loop breaking on > instead of >=.
RECURSIVE utf16_to_utf8_loop_gt(_, _, _, _, _)
utf16_to_utf8_loop_gt(text, k, utf16_index, utf16_len_so_far, utf8_len_so_far) ==
    IF k > Len(text) \/ utf16_len_so_far > utf16_index
    THEN utf8_len_so_far
    ELSE utf16_to_utf8_loop_gt(text, k + 1, utf16_index,
                               utf16_len_so_far + len_utf16(text[k]),
                               utf8_len_so_far + len_utf8(text[k]))

utf16_to_utf8_index_gt(text, utf16_index) == utf16_to_utf8_loop_gt(text, 1, utf16_index, 0, 0)
utf16_to_utf8_index(text, utf16_index) == utf16_to_utf8_loop(text, 1, utf16_index, 0, 0)

\* The loop of utf8_to_usv_index, lines 105-114.
RECURSIVE utf8_to_usv_loop(_, _, _, _, _)
utf8_to_usv_loop(text, k, utf8_index, usv_len_so_far, utf8_len_so_far) ==
    IF k > Len(text) \/ utf8_len_so_far >= utf8_index
    THEN usv_len_so_far
    ELSE utf8_to_usv_loop(text, k + 1, utf8_index,
                          usv_len_so_far + 1,
                          utf8_len_so_far + len_utf8(text[k]))

utf8_to_usv_index(text, utf8_index) == utf8_to_usv_loop(text, 1, utf8_index, 0, 0)

\* The loop of usv_to_utf8_index, lines 118-127.
RECURSIVE usv_to_utf8_loop(_, _, _, _, _)
usv_to_utf8_loop(text, k, usv_index, usv_len_so_far, utf8_len_so_far) ==
    IF k > Len(text) \/ usv_len_so_far >= usv_index
    THEN utf8_len_so_far
    ELSE usv_to_utf8_loop(text, k + 1, usv_index,
                          usv_len_so_far + 1,
                          utf8_len_so_far + len_utf8(text[k]))

\* The same loop breaking one scalar early.
RECURSIVE usv_to_utf8_loop_early(_, _, _, _, _)
usv_to_utf8_loop_early(text, k, usv_index, usv_len_so_far, utf8_len_so_far) ==
    IF k > Len(text) \/ usv_len_so_far + 1 >= usv_index
    THEN utf8_len_so_far
    ELSE usv_to_utf8_loop_early(text, k + 1, usv_index,
                                usv_len_so_far + 1,
                                utf8_len_so_far + len_utf8(text[k]))

usv_to_utf8_index_early(text, usv_index) == usv_to_utf8_loop_early(text, 1, usv_index, 0, 0)
usv_to_utf8_index(text, usv_index) == usv_to_utf8_loop(text, 1, usv_index, 0, 0)

\* The length of a text in each index space.
RECURSIVE Utf8Len(_)
Utf8Len(text) == IF text = << >> THEN 0 ELSE len_utf8(Head(text)) + Utf8Len(Tail(text))
RECURSIVE Utf16Len(_)
Utf16Len(text) == IF text = << >> THEN 0 ELSE len_utf16(Head(text)) + Utf16Len(Tail(text))

\* The indices a caller passes: every offset of the text, and one past its end.
Indices == 0..(Utf8Len(raw_text) + 1)

\* A conversion is called on i (a fresh call), or on the result of the last
\* conversion (a chained call).
Converted(f, i, ret) ==
    \/ /\ call' = [fn |-> f, arg |-> i, ret |-> ret]
       /\ origin' = NoCall
       /\ UNCHANGED raw_text
    \/ /\ call # NoCall
       /\ i = call.ret
       /\ call' = [fn |-> f, arg |-> i, ret |-> ret]
       /\ origin' = call
       /\ UNCHANGED raw_text

call_utf8_to_utf16_index(i) ==
    Converted("utf8_to_utf16_index", i, utf8_to_utf16_index(raw_text, i))

call_utf16_to_utf8_index(i) ==
    Converted("utf16_to_utf8_index", i, utf16_to_utf8_index(raw_text, i))

call_utf8_to_usv_index(i) ==
    Converted("utf8_to_usv_index", i, utf8_to_usv_index(raw_text, i))

call_usv_to_utf8_index(i) ==
    Converted("usv_to_utf8_index", i, usv_to_utf8_index(raw_text, i))

IdxInit == raw_text \in Texts /\ call = NoCall /\ origin = NoCall

IdxNext ==
    \E i \in Indices :
        \/ call_utf8_to_utf16_index(i)
        \/ call_utf16_to_utf8_index(i)
        \/ call_utf8_to_usv_index(i)
        \/ call_usv_to_utf8_index(i)

----------------------------------------------------------------------------
(* The editor's blink timer and key handling: demo/src/text.rs             *)
(*                                                                         *)
(* Instants and Durations are whole microseconds.  The monotonic clock     *)
(* moves between the operations; an operation reads it once.  The text     *)
(* editing itself is parley's PlainEditorDriver: an operation records the  *)
(* driver method it called.                                                *)

\* Duration::from_millis, as_millis, as_nanos, from_nanos and
\* Instant::duration_since on microsecond values.
from_millis(ms) == ms * 1000
as_millis_round(d) == (d + 500) \div 1000
as_millis(d) == d \div 1000
as_nanos(d) == d * 1000
from_nanos(n) == n \div 1000
duration_since(later, earlier) == IF later >= earlier THEN later - earlier ELSE 0

\* text.rs:133, the blink period in milliseconds.
BlinkPeriodMs == 500

\* How far the clock moves between two operations, in microseconds.
Ticks == {1, 499999, 500000}

Keycodes == {"A", "DpadLeft", "DpadRight", "DpadUp", "DpadDown", "MoveHome",
             "MoveEnd", "ForwardDel", "Del", "Enter", "NumpadEnter", "Space",
             "B"}

\* Option<char> of KeyEvent::unicode_char, Option<Instant>: {} is None.
UnicodeChars == {{}, {"b"}}
None == {}
Some(x) == {x}

NoOp == [fn |-> "new", at |-> 0, drv |-> "none", text |-> "", handled |-> FALSE,
         next |-> None, caret |-> FALSE, token |-> 0,
         key |-> "none", shift |-> FALSE, ctrl |-> FALSE, char |-> None,
         action |-> "none", data |-> "none"]

\* An operation at the clock's current reading that called no driver method.
Op(f) == [NoOp EXCEPT !.fn = f, !.at = now]

\* Editor::new, lines 39-60: every blink field is its Default.
EdInit ==
    /\ start_time = None
    /\ blink_period = 0
    /\ cursor_visible = FALSE
    /\ now = 0
    /\ ticks = 0
    /\ op = NoOp
    /\ editor_generation = 0

\* Instant::now() is monotonic: time passes between two operations.
Elapse(d) ==
    /\ ticks < MaxTicks
    /\ ticks' = ticks + 1
    /\ now' = now + d
    /\ UNCHANGED <<start_time, blink_period, cursor_visible, op, editor_generation>>

\* The three assignments of cursor_reset, lines 131-134.
blink_kept == [start_time |-> start_time, blink_period |-> blink_period,
               cursor_visible |-> cursor_visible]
blink_reset_timer_only == [start_time |-> Some(now), blink_period |-> blink_period,
                           cursor_visible |-> TRUE]
blink_reset == [start_time |-> Some(now), blink_period |-> from_millis(BlinkPeriodMs),
                cursor_visible |-> TRUE]

cursor_reset ==
    /\ start_time' = blink_reset.start_time
    /\ blink_period' = blink_reset.blink_period
    /\ cursor_visible' = blink_reset.cursor_visible
    /\ op' = Op("cursor_reset")
    /\ UNCHANGED <<now, ticks, editor_generation>>

\* disable_blink, lines 137-139: what it does to cursor_visible.
disable_blink_hides(v) == FALSE
disable_blink_visible(v) == v

disable_blink ==
    /\ start_time' = None
    /\ cursor_visible' = disable_blink_visible(cursor_visible)
    /\ op' = Op("disable_blink")
    /\ UNCHANGED <<blink_period, now, ticks, editor_generation>>

\* The closure of next_blink_time, lines 143-149, at clock reading t.
next_blink_phase_start(s, period, t) ==
    s + from_nanos((as_nanos(duration_since(t, s)) \div as_nanos(period))
                       * as_nanos(period))
next_blink_instant(s, period, t) ==
    s + from_nanos(((as_nanos(duration_since(t, s)) \div as_nanos(period)) + 1)
                       * as_nanos(period))

next_blink_time ==
    /\ op' = [Op("next_blink_time") EXCEPT
                 !.next = {next_blink_instant(s, blink_period, now) : s \in start_time}]
    /\ UNCHANGED <<start_time, blink_period, cursor_visible, now, ticks,
                   editor_generation>>

\* The value cursor_blink assigns, lines 154-157, at clock reading t.
blink_phase_rounded(s, period, t) ==
    (as_millis_round(duration_since(t, s)) \div as_millis(period)) % 2 = 0
blink_phase(s, period, t) ==
    (as_millis(duration_since(t, s)) \div as_millis(period)) % 2 = 0

is_none_or_visible(start, period, t) ==
    \A s \in start : blink_phase(s, period, t)
is_some_and_visible(start, period, t) ==
    \E s \in start : blink_phase(s, period, t)

\* cursor_blink, lines 153-158, assigns cursor_visible and does not borrow
\* self.editor: the PlainEditor generation after it.
cursor_blink_relayout(g) == {g} \cup ({g + 1} \cap (0..MaxGeneration))
cursor_blink_editor(g) == {g}

cursor_blink ==
    /\ cursor_visible' = is_some_and_visible(start_time, blink_period, now)
    /\ op' = Op("cursor_blink")
    /\ editor_generation' \in cursor_blink_editor(editor_generation)
    /\ UNCHANGED <<start_time, blink_period, now, ticks>>

\* The match of on_key_down, lines 171-278: the driver method called, the
\* text it is given, and the value returned.
Drv(m) == [drv |-> m, text |-> "", handled |-> TRUE]
Insert(s) == [drv |-> "insert_or_replace_selection", text |-> s, handled |-> TRUE]

\* The arms of Keycode::Del (lines 255-261) and of `_` without a unicode
\* character (line 277).
del_arm_forward(action_mod) == IF action_mod THEN Drv("delete_word") ELSE Drv("delete")
del_arm(action_mod) == IF action_mod THEN Drv("backdelete_word") ELSE Drv("backdelete")
no_char_handled == [drv |-> "none", text |-> "", handled |-> TRUE]
no_char == [drv |-> "none", text |-> "", handled |-> FALSE]

key_match(key_code, shift, action_mod, unicode_char) ==
    CASE key_code = "A" /\ action_mod ->
             IF shift THEN Drv("collapse_selection") ELSE Drv("select_all")
      [] key_code = "DpadLeft" ->
             IF action_mod
             THEN IF shift THEN Drv("select_word_left") ELSE Drv("move_word_left")
             ELSE IF shift THEN Drv("select_left") ELSE Drv("move_left")
      [] key_code = "DpadRight" ->
             IF action_mod
             THEN IF shift THEN Drv("select_word_right") ELSE Drv("move_word_right")
             ELSE IF shift THEN Drv("select_right") ELSE Drv("move_right")
      [] key_code = "DpadUp" ->
             IF shift THEN Drv("select_up") ELSE Drv("move_up")
      [] key_code = "DpadDown" ->
             IF shift THEN Drv("select_down") ELSE Drv("move_down")
      [] key_code = "MoveHome" ->
             IF action_mod
             THEN IF shift THEN Drv("select_to_text_start") ELSE Drv("move_to_text_start")
             ELSE IF shift THEN Drv("select_to_line_start") ELSE Drv("move_to_line_start")
      [] key_code = "MoveEnd" ->
             IF action_mod
             THEN IF shift THEN Drv("select_to_text_end") ELSE Drv("move_to_text_end")
             ELSE IF shift THEN Drv("select_to_line_end") ELSE Drv("move_to_line_end")
      [] key_code = "ForwardDel" ->
             IF action_mod THEN Drv("delete_word") ELSE Drv("delete")
      [] key_code = "Del" -> del_arm(action_mod)
      [] key_code \in {"Enter", "NumpadEnter"} -> Insert("\n")
      [] key_code = "Space" -> Insert(" ")
      [] OTHER ->
             IF unicode_char # None
             THEN Insert(CHOOSE c \in unicode_char : TRUE)
             ELSE no_char

\* A call that borrows the PlainEditor mutably (a driver method, layout())
\* may change its generation; the token after such a call.
Nudged(g) == {g} \cup {g + 1 : x \in {g} \cap (0..(MaxGeneration - 1))}

\* on_key_down, lines 160-281: cursor_reset() is its first statement.
on_key_down_blink == blink_reset

on_key_down(key_code, shift, action_mod, unicode_char) ==
    LET m == key_match(key_code, shift, action_mod, unicode_char)
    IN  /\ start_time' = on_key_down_blink.start_time
        /\ blink_period' = on_key_down_blink.blink_period
        /\ cursor_visible' = on_key_down_blink.cursor_visible
        /\ op' = [Op("on_key_down") EXCEPT
                     !.drv = m.drv, !.text = m.text, !.handled = m.handled,
                     !.key = key_code, !.shift = shift, !.ctrl = action_mod,
                     !.char = unicode_char]
        /\ editor_generation' \in IF m.drv = "none" THEN {editor_generation}
                                  ELSE Nudged(editor_generation)
        /\ UNCHANGED <<now, ticks>>

\* The requests handle_accesskit_action_request is given: the action, and
\* the kind of data that comes with it.
Actions == {"SetTextSelection", "Focus"}
ActionData == {"None", "SetTextSelection", "Value"}

\* handle_accesskit_action_request, lines 285-291: the selection of a
\* SetTextSelection request goes to the driver; nothing else is assigned.
selection_given_any_action(action, data) == data = "SetTextSelection"
selection_given(action, data) ==
    action = "SetTextSelection" /\ data = "SetTextSelection"

handle_accesskit_action_request(action, data) ==
    /\ op' = [Op("handle_accesskit_action_request") EXCEPT
                 !.drv = IF selection_given(action, data)
                         THEN "select_from_accesskit" ELSE "none",
                 !.action = action, !.data = data]
    /\ editor_generation' \in IF selection_given(action, data)
                              THEN Nudged(editor_generation)
                              ELSE {editor_generation}
    /\ UNCHANGED <<start_time, blink_period, cursor_visible, now, ticks>>

\* generation, lines 294-296: self.editor.generation().
generation ==
    /\ op' = [Op("generation") EXCEPT !.token = editor_generation]
    /\ UNCHANGED <<start_time, blink_period, cursor_visible, now, ticks,
                   editor_generation>>

\* The token draw returns, line 417, given the token before and after its
\* call of layout(), line 317.
token_before_layout(before, after) == before
token_after_layout(before, after) == after

\* draw, lines 301-418: the caret is filled when cursor_visible holds and
\* the layout has a cursor geometry.
draw(cursor_geometry) ==
    /\ editor_generation' \in Nudged(editor_generation)
    /\ op' = [Op("draw") EXCEPT
                 !.caret = cursor_visible /\ cursor_geometry,
                 !.token = token_after_layout(editor_generation, editor_generation')]
    /\ UNCHANGED <<start_time, blink_period, cursor_visible, now, ticks>>

EdNext ==
    \/ \E d \in Ticks : Elapse(d)
    \/ cursor_reset
    \/ disable_blink
    \/ next_blink_time
    \/ cursor_blink
    \/ \E key_code \in Keycodes, shift \in BOOLEAN, action_mod \in BOOLEAN,
          unicode_char \in UnicodeChars :
           on_key_down(key_code, shift, action_mod, unicode_char)
    \/ \E action \in Actions, data \in ActionData :
           handle_accesskit_action_request(action, data)
    \/ generation
    \/ \E cursor_geometry \in BOOLEAN : draw(cursor_geometry)

----------------------------------------------------------------------------
(* The InputConnection trait's provided methods: ime.rs                    *)
(*                                                                         *)
(* The required methods are the implementor's: each returns what the       *)
(* implementor decides.  ic_log is every call the implementor received,    *)
(* ime the implementor's editing state.                                    *)

ImeTexts == {"", "x"}
CursorPositions == {0, 1}

Received(f, text, pos, ret) == [fn |-> f, text |-> text, pos |-> pos, ret |-> ret]

\* An implementor's editing state: the pieces of text it was given, which of
\* them are composing regions, the caret (piece and offset), the generation
\* token, the depth of batch edits and the notify passes made.
NoIme == [text |-> << >>, composing |-> {}, caret |-> <<0, 0>>, generation |-> 0,
          batch |-> 0, notified |-> 0]

NoIc == [fn |-> "none", text |-> "", pos |-> 0, ret |-> FALSE, from |-> 0,
         before |-> NoIme]

ImeInit == ic_log = << >> /\ ic_op = NoIc /\ ime = NoIme

\* What a required method does to the implementor's state s when the
\* implementor honours it; a call it does not honour returns false and
\* changes nothing.
implementor_set_composing_text(s, text, pos) ==
    IF s.composing = {}
    THEN [s EXCEPT !.text = Append(s.text, text),
                   !.composing = {Len(s.text) + 1},
                   !.caret = <<Len(s.text) + 1, pos>>,
                   !.generation = @ + 1]
    ELSE LET k == CHOOSE k \in s.composing : TRUE
         IN  [s EXCEPT !.text = [s.text EXCEPT ![k] = text],
                       !.caret = <<k, pos>>,
                       !.generation = @ + 1]

implementor_finish_composing_text(s) ==
    IF s.composing = {} THEN s
    ELSE [s EXCEPT !.composing = {}, !.generation = @ + 1]

implementor_begin_batch_edit(s) == [s EXCEPT !.batch = @ + 1]

implementor_end_batch_edit(s) ==
    IF s.batch = 0 THEN s
    ELSE [s EXCEPT !.batch = @ - 1,
                   !.notified = IF s.batch = 1 THEN @ + 1 ELSE @]

implementor(s, r) ==
    IF ~r.ret THEN s
    ELSE CASE r.fn = "set_composing_text" -> implementor_set_composing_text(s, r.text, r.pos)
           [] r.fn = "finish_composing_text" -> implementor_finish_composing_text(s)
           [] r.fn = "begin_batch_edit" -> implementor_begin_batch_edit(s)
           [] r.fn = "end_batch_edit" -> implementor_end_batch_edit(s)
           [] OTHER -> s

\* The host's call f reaches the implementor as the one call r.
Dispatched(f, r) ==
    /\ Len(ic_log) < MaxImeLog
    /\ ic_log' = Append(ic_log, r)
    /\ ime' = implementor(ime, r)
    /\ ic_op' = [fn |-> f, text |-> r.text, pos |-> r.pos, ret |-> r.ret,
                 from |-> Len(ic_log), before |-> ime]

\* The host calls a required method: set_composing_text (lines 220-226) and
\* finish_composing_text (lines 237-241).
set_composing_text(text, new_cursor_position, ret) ==
    Dispatched("set_composing_text",
               Received("set_composing_text", text, new_cursor_position, ret))

finish_composing_text(ret) ==
    Dispatched("finish_composing_text", Received("finish_composing_text", "", 0, ret))

\* Whether the right operand of a && b is evaluated, given the left one, and
\* the value of a && b.
and_eager(a) == TRUE
and_then(a) == a
left_operand(a, b) == a
and_value(a, b) == a /\ b

\* commit_text, lines 244-253: set_composing_text(..) && finish_composing_text(..).
commit_text(text, new_cursor_position, set_ret, finish_ret) ==
    LET set == Received("set_composing_text", text, new_cursor_position, set_ret)
        finish == Received("finish_composing_text", "", 0, finish_ret)
        first == Append(ic_log, set)
        second == Append(first, finish)
    IN  /\ Len(ic_log) + 1 < MaxImeLog
        /\ ic_log' = IF and_then(set_ret) THEN second ELSE first
        /\ ime' = IF and_then(set_ret)
                  THEN implementor(implementor(ime, set), finish)
                  ELSE implementor(ime, set)
        /\ ic_op' = [fn |-> "commit_text", text |-> text, pos |-> new_cursor_position,
                     ret |-> and_value(set_ret, and_then(set_ret) => finish_ret),
                     from |-> Len(ic_log), before |-> ime]

\* The natives begin_batch_edit (lines 541-553) and end_batch_edit (lines
\* 555-567): the method of the connection each one calls.
begin_batch_edit_calls == "begin_batch_edit"
end_batch_edit_calls_begin == "begin_batch_edit"
end_batch_edit_calls == "end_batch_edit"

\* The implementor's answer to a batch call: it honours begin_batch_edit, and
\* end_batch_edit while a batch is open.
BatchAnswer(f) == f = "begin_batch_edit" \/ ime.batch > 0

begin_batch_edit ==
    Dispatched("begin_batch_edit",
               Received(begin_batch_edit_calls, "", 0, BatchAnswer(begin_batch_edit_calls)))

end_batch_edit ==
    Dispatched("end_batch_edit",
               Received(end_batch_edit_calls, "", 0, BatchAnswer(end_batch_edit_calls)))

\* close_input_connection (lines 629-637) calls close_connection, whose
\* provided body (line 322) is empty: the implementor receives no call.
close_connection ==
    /\ ic_op' = [fn |-> "close_connection", text |-> "", pos |-> 0, ret |-> TRUE,
                 from |-> Len(ic_log), before |-> ime]
    /\ UNCHANGED <<ic_log, ime>>

ImeNext ==
    \/ \E text \in ImeTexts, new_cursor_position \in CursorPositions,
          set_ret \in BOOLEAN, finish_ret \in BOOLEAN :
           \/ set_composing_text(text, new_cursor_position, set_ret)
           \/ finish_composing_text(finish_ret)
           \/ commit_text(text, new_cursor_position, set_ret, finish_ret)
    \/ begin_batch_edit
    \/ end_batch_edit
    \/ close_connection

----------------------------------------------------------------------------
(* The specifications                                                      *)

IdxIdle == raw_text = << >> /\ call = NoCall /\ origin = NoCall

Init == RegInit /\ IdxIdle /\ EdInit /\ ImeInit

Next == RegNext /\ UNCHANGED <<idxVars, edVars, imeVars>>

Spec == Init /\ [][Next]_vars

\* A thread that can take the table lock takes it, and a callback or hook
\* that can return returns: threads are scheduled, peer callbacks end.
Acquire(t) ==
    /\ \/ register_view_peer_insert(t)
       \/ with_peer_lock(t)
       \/ with_peer_and_default_lock(t)
       \/ on_detached_from_window_lock(t)
    /\ UNCHANGED <<idxVars, edVars, imeVars>>

Finish(t) ==
    /\ \/ with_peer_return(t)
       \/ with_input_connection_return(t)
       \/ on_detached_from_window_return(t)
    /\ UNCHANGED <<idxVars, edVars, imeVars>>

FairSpec ==
    Init /\ [][Next]_vars /\ \A t \in Threads : WF_vars(Acquire(t)) /\ WF_vars(Finish(t))

\* The conversions on every text of the bounded alphabet.
InitIdx == RegInit /\ IdxInit /\ EdInit /\ ImeInit

NextIdx == IdxNext /\ UNCHANGED <<regVars, edVars, imeVars>>

SpecIdx == InitIdx /\ [][NextIdx]_vars

\* The editor's blink timer and key handling.
InitEd == RegInit /\ IdxIdle /\ EdInit /\ ImeInit

NextEd == EdNext /\ UNCHANGED <<regVars, idxVars, imeVars>>

SpecEd == InitEd /\ [][NextEd]_vars

\* The host calling the methods of an InputConnection.
InitIme == RegInit /\ IdxIdle /\ EdInit /\ ImeInit

NextIme == ImeNext /\ UNCHANGED <<regVars, idxVars, edVars>>

SpecIme == InitIme /\ [][NextIme]_vars

----------------------------------------------------------------------------
(* What the claims say, on the model                                       *)

Dispatches == {"with_peer", "with_input_connection"}
Detach == "on_detached_from_window"
Register == "register_view_peer"

\* The callback f of a dispatch of thread t has started and not returned (a
\* callback blocked in a registry call of its own has not returned).
Running(t) == pc[t] \in {"callback", "blocked"} /\ fn[t] \in Dispatches

\* The teardown hook called by thread t has started and not returned.
HookRunning(t) == pc[t] \in {"hook", "blocked"} /\ fn[t] = Detach

\* Handle h has been removed by on_detached_from_window.
Detached(h) == hookCount[h] >= 1

\* Thread t is inside a registry call that has neither returned nor failed.
InCall(t) == pc[t] \in {"lock", "callback", "hook"}

\* C1: the callbacks of two dispatches (with_peer, or the input-connection
\* dispatch) on the same handle never run at overlapping times.
C1_SameHandleSerialized ==
    \A t, u \in Threads :
        (t # u /\ Running(t) /\ Running(u)) => id[t] # id[u]

\* C1, its case: a with_peer callback runs on a handle while an
\* input-connection dispatch on the same handle waits for the table lock.
C1_Witness ==
    \E t, u \in Threads :
        /\ t # u
        /\ pc[t] = "callback" /\ fn[t] = "with_peer"
        /\ pc[u] = "lock" /\ fn[u] = "with_input_connection"
        /\ id[u] = id[t]

\* C2: register_view_peer never returns a handle it returned before, nor one
\* that another registration in progress holds, whatever was detached.
C2_HandlesUnique ==
    /\ \A i, j \in 1..Len(returned) : i # j => returned[i] # returned[j]
    /\ \A t \in Threads :
           (fn[t] = Register /\ pc[t] = "lock") =>
               /\ \A i \in 1..Len(returned) : returned[i] # id[t]
               /\ \A u \in Threads \ {t} :
                      (fn[u] = Register /\ pc[u] = "lock") => id[u] # id[t]

\* C2, its case: a second handle has been returned after the first one was
\* detached and removed from the table.
C2_Witness ==
    /\ Len(returned) = 2
    /\ Detached(returned[1])
    /\ returned[1] \notin DOMAIN PEER_MAP
    /\ returned[2] \in DOMAIN PEER_MAP

\* C3: a detached handle is never again a key of the table, no callback runs
\* on it, and a with_peer on it that reaches the lock fails without running
\* its callback.
C3_RemovedStaysRemoved ==
    /\ [](\A h \in Handles : Detached(h) => h \notin DOMAIN PEER_MAP)
    /\ [](\A t \in Threads : Running(t) => ~Detached(id[t]))
    /\ [][\A t \in Threads :
            (pc[t] = "lock" /\ fn[t] = "with_peer" /\ Detached(id[t]))
                => pc'[t] \in {"lock", "panicked"}]_vars

\* C3, its case: with_peer on a detached handle has failed, with another
\* handle registered in the table.
C3_Witness ==
    \E t \in Threads :
        /\ pc[t] = "panicked" /\ fn[t] = "with_peer"
        /\ Detached(id[t])
        /\ DOMAIN PEER_MAP # {}

\* C4: a handle's teardown hook is invoked at most once, by the detach that
\* removed the entry and after the removal; a detach that returns has invoked
\* it; a detach of an already detached handle fails and invokes no hook.
C4_HookExactlyOnce ==
    /\ [](\A h \in Handles : hookCount[h] <= 1)
    /\ [](\A t \in Threads :
            HookRunning(t) => id[t] \notin DOMAIN PEER_MAP /\ hookCount[id[t]] = 1)
    /\ [][\A t \in Threads :
            /\ (pc[t] = "lock" /\ fn[t] = Detach /\ pc'[t] = "hook")
                   => hookCount[id[t]] = 0 /\ hookCount'[id[t]] = 1
            /\ (pc[t] = "hook" /\ pc'[t] = "idle")
                   => hookCount[id[t]] = 1 /\ id[t] \notin DOMAIN PEER_MAP'
            /\ (pc[t] = "lock" /\ fn[t] = Detach /\ Detached(id[t]))
                   => /\ pc'[t] \in {"lock", "panicked"}
                      /\ hookCount'[id[t]] = hookCount[id[t]]]_vars

\* C4, its case: a second detach of a handle has failed after the first one
\* invoked the hook.
C4_Witness ==
    \E t \in Threads :
        /\ pc[t] = "panicked" /\ fn[t] = Detach
        /\ hookCount[id[t]] = 1

\* C5: the teardown hook runs with the table lock not held, so a hook that
\* calls the registry is not stopped by the lock of its own detach.
C5_HookRunsUnlocked ==
    \A t \in Threads :
        /\ HookRunning(t) => lock # {t}
        /\ ~(pc[t] = "blocked" /\ fn[t] = Detach)

\* C6, as stated: with_peer calls on different handles may run their
\* callbacks concurrently: a with_peer waiting for a registered handle is
\* not held up by a callback running on another handle.
C6_DifferentHandlesConcurrent ==
    \A t, u \in Threads :
        (/\ t # u
         /\ pc[t] = "callback" /\ fn[t] = "with_peer"
         /\ pc[u] = "lock" /\ fn[u] = "with_peer"
         /\ id[u] # id[t] /\ id[u] \in DOMAIN PEER_MAP)
            => ENABLED with_peer_lock(u)

\* C6, amended: at most one callback runs at any time, whatever the handles.
C6_AllDispatchesSerialized ==
    \A t, u \in Threads : (Running(t) /\ Running(u)) => t = u

\* C6, its case: a with_peer callback runs on one handle while a with_peer on
\* another registered handle waits for the table lock.
C6_Witness ==
    \E t, u \in Threads :
        /\ pc[t] = "callback" /\ fn[t] = "with_peer"
        /\ pc[u] = "lock" /\ fn[u] = "with_peer"
        /\ id[u] # id[t]
        /\ {id[t], id[u]} \subseteq DOMAIN PEER_MAP

\* C7, as stated: every register_view_peer, with_peer and detach call
\* eventually returns (or fails fatally).  Set aside are the executions with
\* an input-connection dispatch under way and those in which a teardown hook
\* has called the registry (the case of C5).
C7_EveryCallEnds ==
    \A t \in Threads :
        InCall(t) ~> (\/ pc[t] \in {"idle", "panicked"}
                      \/ \E u \in Threads : fn[u] = "with_input_connection"
                      \/ \E u \in Threads : pc[u] = "blocked" /\ fn[u] = Detach)

\* C7, amended: every registry call eventually returns or fails fatally,
\* unless a callback or hook has called the registry on its own thread and is
\* blocked there.
C7_EndsUnlessReentered ==
    \A t \in Threads :
        InCall(t) ~> (pc[t] \in {"idle", "panicked"} \/ \E u \in Threads : pc[u] = "blocked")

\* C7, its case: a call waits for the table lock while a teardown hook runs.
C7_Witness ==
    \E t, u \in Threads : pc[t] = "lock" /\ pc[u] = "hook"

\* The handle value i is held by a register_view_peer call that has
\* advanced the counter and not inserted: in progress, failed, or made by a
\* callback.
Allocated(i) ==
    \/ \E t \in Threads : fn[t] = Register /\ pc[t] \in {"lock", "panicked"} /\ id[t] = i
    \/ \E t \in Threads : inner[t] = [fn |-> Register, id |-> i]

\* C8, as stated: whenever the table lock is free, every value below the
\* counter is a key of the table or a detached handle.
C8_AllocateInsertAtomic ==
    LockFree => \A i \in 0..(NEXT_PEER_ID - 1) : i \in DOMAIN PEER_MAP \/ Detached(i)

\* C8, amended: whenever the table lock is free, every value below the
\* counter is a key of the table, a detached handle, or held by a
\* register_view_peer call that has not inserted it.
C8_AllocateThenInsert ==
    LockFree => \A i \in 0..(NEXT_PEER_ID - 1) :
                    i \in DOMAIN PEER_MAP \/ Detached(i) \/ Allocated(i)

\* C8, its case: the lock is free and the newest handle value is allocated
\* and not in the table.
C8_Witness ==
    \E t \in Threads :
        /\ LockFree
        /\ fn[t] = Register /\ pc[t] = "lock"
        /\ NEXT_PEER_ID = id[t] + 1
        /\ id[t] \notin DOMAIN PEER_MAP

\* C9: a register_view_peer call that begins after another returned gets a
\* strictly greater handle, and registrations that do not overlap return
\* 0, 1, 2, ... in this order.
C9_HandlesIncrease ==
    /\ [][\A t \in Threads :
            (pc[t] = "idle" /\ pc'[t] = "lock" /\ fn'[t] = Register)
                => id'[t] > MaxReturned]_vars
    /\ [](~overlap => \A i \in 1..Len(returned) : returned[i] = i - 1)

\* C9, its case: handle 0 was returned and detached, and a later
\* registration, overlapping no other, returned 1.
C9_Witness ==
    /\ ~overlap
    /\ returned = <<0, 1>>
    /\ Detached(0)

\* The valid positions of a text in each index space.
RECURSIVE Utf8Boundaries(_)
Utf8Boundaries(text) ==
    IF text = << >> THEN {0}
    ELSE {Utf8Len(text)} \cup Utf8Boundaries(SubSeq(text, 1, Len(text) - 1))
RECURSIVE Utf16Boundaries(_)
Utf16Boundaries(text) ==
    IF text = << >> THEN {0}
    ELSE {Utf16Len(text)} \cup Utf16Boundaries(SubSeq(text, 1, Len(text) - 1))
UsvBoundaries(text) == 0..Len(text)

\* The index space a conversion reads and the one it writes.
SourceBoundaries(f, text) ==
    CASE f \in {"utf8_to_utf16_index", "utf8_to_usv_index"} -> Utf8Boundaries(text)
      [] f = "utf16_to_utf8_index" -> Utf16Boundaries(text)
      [] f = "usv_to_utf8_index" -> UsvBoundaries(text)
      [] OTHER -> {}
TargetBoundaries(f, text) ==
    CASE f \in {"utf16_to_utf8_index", "usv_to_utf8_index"} -> Utf8Boundaries(text)
      [] f = "utf8_to_utf16_index" -> Utf16Boundaries(text)
      [] f = "utf8_to_usv_index" -> UsvBoundaries(text)
      [] OTHER -> {}
Inverse(f) ==
    CASE f = "utf8_to_utf16_index" -> "utf16_to_utf8_index"
      [] f = "utf16_to_utf8_index" -> "utf8_to_utf16_index"
      [] f = "utf8_to_usv_index" -> "usv_to_utf8_index"
      [] f = "usv_to_utf8_index" -> "utf8_to_usv_index"
      [] OTHER -> "none"

\* C10: a valid position converts to a valid position of the target space,
\* and converting that back gives the position again, in both directions
\* between byte offsets and code-unit offsets and between byte offsets and
\* scalar offsets.
C10_RoundTrip ==
    /\ (call # NoCall /\ call.arg \in SourceBoundaries(call.fn, raw_text))
           => call.ret \in TargetBoundaries(call.fn, raw_text)
    /\ (/\ origin # NoCall
        /\ call.fn = Inverse(origin.fn)
        /\ origin.arg \in SourceBoundaries(origin.fn, raw_text))
           => call.ret = origin.arg

\* C10, its case: the byte offset after a two-byte scalar and a surrogate
\* pair went to code units and back.
C10_Witness ==
    /\ raw_text = <<233, 128512>>
    /\ origin = [fn |-> "utf8_to_utf16_index", arg |-> 6, ret |-> 3]
    /\ call = [fn |-> "utf16_to_utf8_index", arg |-> 3, ret |-> 6]

\* The length of a text in the index space a conversion reads, and in the
\* one it writes.
SourceLen(f, text) ==
    CASE f \in {"utf8_to_utf16_index", "utf8_to_usv_index"} -> Utf8Len(text)
      [] f = "utf16_to_utf8_index" -> Utf16Len(text)
      [] OTHER -> Len(text)
TargetLen(f, text) ==
    CASE f \in {"utf16_to_utf8_index", "usv_to_utf8_index"} -> Utf8Len(text)
      [] f = "utf8_to_utf16_index" -> Utf16Len(text)
      [] OTHER -> Len(text)

\* The conversion named f, applied.
Apply(f, text, i) ==
    CASE f = "utf8_to_utf16_index" -> utf8_to_utf16_index(text, i)
      [] f = "utf16_to_utf8_index" -> utf16_to_utf8_index(text, i)
      [] f = "utf8_to_usv_index" -> utf8_to_usv_index(text, i)
      [] OTHER -> usv_to_utf8_index(text, i)

Min(S) == CHOOSE x \in S : \A y \in S : x <= y

\* Index i of the source space of f lies strictly inside a scalar of the text.
InsideScalar(f, text, i) ==
    i < SourceLen(f, text) /\ i \notin SourceBoundaries(f, text)

\* The target position of the last boundary at or before source index i, and
\* of the first boundary at or after it.
BoundaryBelow(f, text, i) ==
    TargetLen(f, SubSeq(text, 1,
        Max({k \in 0..Len(text) : SourceLen(f, SubSeq(text, 1, k)) <= i})))
BoundaryAbove(f, text, i) ==
    TargetLen(f, SubSeq(text, 1,
        Min({k \in 0..Len(text) : SourceLen(f, SubSeq(text, 1, k)) >= i})))

\* C11 as the specification states it: an index inside a scalar (a byte
\* offset inside a multi-byte scalar, a code-unit offset between the halves
\* of a surrogate pair) converts as the last valid boundary before it does.
C11_RoundsDown ==
    (call # NoCall /\ InsideScalar(call.fn, raw_text, call.arg))
        => call.ret = BoundaryBelow(call.fn, raw_text, call.arg)

\* C11 as the code has it: an index inside a scalar converts as the first
\* valid boundary after it does, the end of the scalar it lies in; the
\* result is a valid position of the target space and no call fails.
C11_RoundsUp ==
    (call # NoCall /\ InsideScalar(call.fn, raw_text, call.arg))
        => /\ call.ret = BoundaryAbove(call.fn, raw_text, call.arg)
           /\ call.ret \in TargetBoundaries(call.fn, raw_text)

\* C11, its case: the code-unit offset between the two halves of a surrogate
\* pair was converted to the byte offset after the pair.
C11_Witness ==
    /\ raw_text = <<97, 128512>>
    /\ call = [fn |-> "utf16_to_utf8_index", arg |-> 2, ret |-> 5]

\* C12: byte offset to code-unit offset and byte offset to scalar offset are
\* monotone: a call on a valid byte offset returns at least what the
\* conversion gives on every smaller valid byte offset.
C12_Monotone ==
    (/\ call.fn \in {"utf8_to_utf16_index", "utf8_to_usv_index"}
     /\ call.arg \in Utf8Boundaries(raw_text))
        => \A b1 \in Utf8Boundaries(raw_text) :
               b1 < call.arg => Apply(call.fn, raw_text, b1) <= call.ret

\* C12, its case: the byte offset after a surrogate pair and a one-byte
\* scalar was converted, with two smaller valid offsets before it.
C12_Witness ==
    /\ raw_text = <<128512, 97>>
    /\ call = [fn |-> "utf8_to_utf16_index", arg |-> 5, ret |-> 3]

\* C13: across one scalar, from the byte offset where it starts to the byte
\* offset where it ends, the code-unit offset grows by 2 when the scalar has
\* four bytes and by 1 otherwise, and the scalar offset grows by 1.
C13_ScalarWidths ==
    \A k \in 1..Len(raw_text) :
        LET s == Utf8Len(SubSeq(raw_text, 1, k - 1))
            e == Utf8Len(SubSeq(raw_text, 1, k))
        IN  (/\ call.fn \in {"utf8_to_utf16_index", "utf8_to_usv_index"}
             /\ call.arg = e)
                => call.ret - Apply(call.fn, raw_text, s) =
                       IF call.fn = "utf8_to_utf16_index" /\ e - s = 4
                       THEN 2 ELSE 1

\* C13, its case: the byte offset after a four-byte scalar that follows a
\* three-byte scalar was converted to code units.
C13_Witness ==
    /\ raw_text = <<8364, 128512>>
    /\ call = [fn |-> "utf8_to_utf16_index", arg |-> 7, ret |-> 3]

\* C14: each of the four conversions, called on the length of the text in
\* its source space, returns the length of the text in its target space;
\* on the empty text 0 goes to 0.
C14_LengthToLength ==
    (call # NoCall /\ call.arg = SourceLen(call.fn, raw_text))
        => call.ret = TargetLen(call.fn, raw_text)

\* C14, its case: the code-unit length of a text with a surrogate pair was
\* converted to its byte length.
C14_Witness ==
    /\ raw_text = <<128512, 8364>>
    /\ call = [fn |-> "utf16_to_utf8_index", arg |-> 3, ret |-> 7]

\* The blink timer is absent; a step is operation f of the Editor.
NoTimer == start_time = None
EdStep(f) == op'.fn = f /\ now' = now

\* The blink period cursor_reset sets, in microseconds.
HalfSecond == BlinkPeriodMs * 1000

\* An edit operation was the last operation: a key press, or a selection
\* supplied from outside and applied.
KeyPressed == op.fn = "on_key_down"
SelectionApplied ==
    op.fn = "handle_accesskit_action_request" /\ op.drv = "select_from_accesskit"

\* C15 as the specification states it: right after an edit operation, a key
\* press or an externally supplied selection, the timer is present with its
\* start at the time of the operation and the cursor is visible.
C15_EveryEditResets ==
    (KeyPressed \/ SelectionApplied)
        => start_time = Some(op.at) /\ cursor_visible

\* C15 as the code has it: right after on_key_down, whatever the key and
\* whether it was handled, the timer is present with its start at the time
\* of the call and the cursor is visible; handle_accesskit_action_request
\* leaves the timer, the period and cursor_visible as they were.
C15_KeyDownResets ==
    /\ [](KeyPressed =>
              /\ start_time = Some(op.at)
              /\ blink_period = HalfSecond
              /\ cursor_visible)
    /\ [][EdStep("handle_accesskit_action_request") =>
              UNCHANGED <<start_time, blink_period, cursor_visible>>]_vars

\* C15, its case: a key was pressed at a time after construction (it deleted
\* the word before the cursor) and the timer starts at that time.
C15_Witness ==
    /\ KeyPressed
    /\ op.drv = "backdelete_word"
    /\ op.at > 0
    /\ start_time = Some(op.at)
    /\ now > op.at

\* C16 as the specification states it: whenever the timer is absent the
\* cursor is hidden.
C16_NoTimerHidden == NoTimer => ~cursor_visible

\* C16 as the code has it: after new the timer is absent and the cursor
\* hidden; disable_blink removes the timer and leaves cursor_visible as it
\* was; with the timer absent the cursor is visible only as left over from
\* before disable_blink, and the first cursor_blink hides it; draw paints
\* the caret only when cursor_visible holds.
C16_HiddenOnceBlinked ==
    /\ NoTimer /\ ~cursor_visible
    /\ [][EdStep("disable_blink") =>
              NoTimer' /\ cursor_visible' = cursor_visible]_vars
    /\ [][(NoTimer' /\ cursor_visible') =>
              /\ cursor_visible
              /\ ~EdStep("cursor_blink")
              /\ NoTimer \/ EdStep("disable_blink")]_vars
    /\ [](op.fn = "draw" /\ op.caret => cursor_visible)

\* C16, its case: after a reset and disable_blink, with no cursor_blink yet,
\* draw painted the caret although the timer is absent.
C16_Witness ==
    /\ NoTimer
    /\ cursor_visible
    /\ op.fn = "draw"
    /\ op.caret

\* C17: once the timer is absent, every cursor_blink leaves the cursor
\* hidden and the timer absent, next_blink_time returns None, and only
\* cursor_reset (alone, or as the first statement of on_key_down) brings the
\* timer back.
C17_DisabledStaysHidden ==
    /\ [][(NoTimer /\ EdStep("cursor_blink")) =>
              ~cursor_visible' /\ NoTimer']_vars
    /\ [][(NoTimer /\ EdStep("next_blink_time")) =>
              op'.next = None /\ NoTimer']_vars
    /\ [][(NoTimer /\ ~NoTimer') =>
              EdStep("cursor_reset") \/ EdStep("on_key_down")]_vars

\* C17, its case: the timer had been started and then disabled, time has
\* passed, and a cursor_blink has left the cursor hidden.
C17_Witness ==
    /\ NoTimer
    /\ blink_period = HalfSecond
    /\ op.fn = "cursor_blink"
    /\ op.at >= HalfSecond
    /\ ~cursor_visible

\* C18: with the timer started at t0, a cursor_blink at time t leaves the
\* cursor visible exactly when floor((t - t0) / 500 ms) is even, whatever
\* cursor_blink calls came before.
C18_BlinkPhase ==
    \A t0 \in start_time :
        op.fn = "cursor_blink" =>
            (cursor_visible <=> ((op.at - t0) \div HalfSecond) % 2 = 0)

\* C18, its case: cursor_blink one microsecond before the end of the first
\* half second after the start still shows the cursor.
C18_Witness ==
    \E t0 \in start_time :
        /\ op.fn = "cursor_blink"
        /\ op.at - t0 = HalfSecond - 1
        /\ cursor_visible

\* C19: with the timer present, next_blink_time called at time t returns
\* start + period * (floor((t - start) / period) + 1): an instant later
\* than t, at most one period after t, a whole number of periods after the
\* start, and at which cursor_blink gives the opposite visibility to
\* cursor_blink at t.
C19_NextBlinkTime ==
    \A s \in start_time :
        op.fn = "next_blink_time" =>
            /\ op.next = Some(s + blink_period * (((op.at - s) \div blink_period) + 1))
            /\ \A r \in op.next :
                   /\ r > op.at
                   /\ r - op.at <= blink_period
                   /\ (r - s) % blink_period = 0
                   /\ is_some_and_visible(start_time, blink_period, r)
                          # is_some_and_visible(start_time, blink_period, op.at)

\* C19, its case: next_blink_time called one microsecond after the first
\* toggle returned the instant of the second toggle.
C19_Witness ==
    \E s \in start_time :
        /\ op.fn = "next_blink_time"
        /\ op.at - s = HalfSecond + 1
        /\ op.next = Some(s + 2 * HalfSecond)

\* The calls the implementor received from the last method the host called.
Made == SubSeq(ic_log, ic_op.from + 1, Len(ic_log))

\* C20: the provided commit_text calls set_composing_text first, with its
\* own arguments, then finish_composing_text, the second only when the first
\* returned true, and returns true exactly when both returned true.
C20_CommitIsSetThenFinish ==
    ic_op.fn = "commit_text" =>
        /\ Len(Made) \in {1, 2}
        /\ Made[1].fn = "set_composing_text"
        /\ Made[1].text = ic_op.text
        /\ Made[1].pos = ic_op.pos
        /\ Len(Made) = 2 <=> Made[1].ret
        /\ Len(Made) = 2 => Made[2].fn = "finish_composing_text"
        /\ ic_op.ret <=> (Len(Made) = 2 /\ Made[1].ret /\ Made[2].ret)

\* C20, its case: after an earlier call, commit_text had its
\* set_composing_text succeed and its finish_composing_text fail, and
\* returned false.
C20_Witness ==
    /\ ic_op.fn = "commit_text"
    /\ ic_op.from = 1
    /\ Len(Made) = 2
    /\ Made[1].ret
    /\ ~Made[2].ret
    /\ ~ic_op.ret

\* The mutations of the input-method protocol that the model has.
Mutations == {"set_composing_text", "finish_composing_text", "commit_text"}

\* C21: a mutation that returns false has changed nothing: the text, the
\* selection, the composing region and the generation are as they were
\* before the call; so it is for a commit_text that returns false.
C21_FalseMeansUnchanged ==
    (ic_op.fn \in Mutations /\ ~ic_op.ret) => ime = ic_op.before

\* The last call was a commit_text whose set_composing_text succeeded and
\* whose finish_composing_text failed: the case of C21.
LeftHalfDone ==
    ic_op.fn = "commit_text" /\ ~ic_op.ret /\ Len(ic_log) = ic_op.from + 2

C23_ClosedMeansFinished ==
    ic_op.fn = "close_connection" =>
        /\ ime.composing = {}
        /\ ime.text = ic_op.before.text

\* The batches a sequence of received calls leaves open.
RECURSIVE OpenBatches(_)
OpenBatches(log) ==
    IF log = << >> THEN 0
    ELSE LET open == OpenBatches(SubSeq(log, 1, Len(log) - 1))
             last == log[Len(log)]
         IN  CASE last.fn = "begin_batch_edit" -> open + 1
               [] last.fn = "end_batch_edit" /\ open > 0 -> open - 1
               [] OTHER -> open

\* The received calls end with two begin_batch_edit calls, made with no
\* batch open, and one end_batch_edit call, the last call of the host.
TwoBeginsOneEnd ==
    /\ Len(ic_log) >= 3
    /\ ic_op.fn = "end_batch_edit"
    /\ ic_log[Len(ic_log) - 2].fn = "begin_batch_edit"
    /\ ic_log[Len(ic_log) - 1].fn = "begin_batch_edit"
    /\ ic_log[Len(ic_log)].fn = "end_batch_edit"
    /\ OpenBatches(SubSeq(ic_log, 1, Len(ic_log) - 3)) = 0

blinkFields == <<start_time, blink_period, cursor_visible>>

\* C25: handle_accesskit_action_request calls select_from_accesskit exactly
\* when the action is SetTextSelection and its payload is a SetTextSelection
\* payload, and calls no other driver method; a request of any other shape
\* leaves the text and the selection (no driver method is called, the
\* PlainEditor keeps its generation), the blink timer and cursor_visible
\* unchanged.
C25_OnlySelectionRequestsApply ==
    /\ [][EdStep("handle_accesskit_action_request") =>
            /\ op'.drv = IF op'.action = "SetTextSelection"
                            /\ op'.data = "SetTextSelection"
                         THEN "select_from_accesskit" ELSE "none"
            /\ (op'.drv = "none" =>
                    UNCHANGED <<blinkFields, editor_generation>>)]_vars
    /\ [](op.fn = "handle_accesskit_action_request" =>
              op.drv \in {"none", "select_from_accesskit"})

\* C25, its case: a SetTextSelection action carrying another payload was
\* ignored, with the timer running and the caret hidden by a blink.
C25_Witness ==
    /\ op.fn = "handle_accesskit_action_request"
    /\ op.action = "SetTextSelection"
    /\ op.data = "Value"
    /\ op.drv = "none"
    /\ start_time # None
    /\ ~cursor_visible

\* C26: generation() and draw() call no driver method and leave the blink
\* timer, the blink period and cursor_visible unchanged; generation() leaves
\* the token unchanged, so a generation() that follows a generation() or a
\* draw() with no operation in between returns the token that call returned.
C26_RenderOnlyReads ==
    /\ [][(EdStep("generation") \/ EdStep("draw")) =>
            /\ UNCHANGED blinkFields
            /\ op'.drv = "none"
            /\ op'.text = ""]_vars
    /\ [][EdStep("generation") =>
            /\ editor_generation' = editor_generation
            /\ (op.fn \in {"generation", "draw"} => op'.token = op.token)]_vars

\* C26, its case: draw's layout pass moved the token and draw returned the
\* moved token, with the caret drawn.
C26_Witness ==
    /\ op.fn = "draw"
    /\ op.token = editor_generation
    /\ op.token > 0
    /\ op.caret
    /\ start_time # None

\* The driver method the specification assigns to each named key, as rows
\* <<key, shift, ctrl, method>>.
KeyTable ==
    {<<"DpadLeft", FALSE, FALSE, "move_left">>,
     <<"DpadLeft", TRUE, FALSE, "select_left">>,
     <<"DpadLeft", FALSE, TRUE, "move_word_left">>,
     <<"DpadLeft", TRUE, TRUE, "select_word_left">>,
     <<"DpadRight", FALSE, FALSE, "move_right">>,
     <<"DpadRight", TRUE, FALSE, "select_right">>,
     <<"DpadRight", FALSE, TRUE, "move_word_right">>,
     <<"DpadRight", TRUE, TRUE, "select_word_right">>,
     <<"MoveHome", FALSE, FALSE, "move_to_line_start">>,
     <<"MoveHome", TRUE, FALSE, "select_to_line_start">>,
     <<"MoveHome", FALSE, TRUE, "move_to_text_start">>,
     <<"MoveHome", TRUE, TRUE, "select_to_text_start">>,
     <<"MoveEnd", FALSE, FALSE, "move_to_line_end">>,
     <<"MoveEnd", TRUE, FALSE, "select_to_line_end">>,
     <<"MoveEnd", FALSE, TRUE, "move_to_text_end">>,
     <<"MoveEnd", TRUE, TRUE, "select_to_text_end">>,
     <<"DpadUp", FALSE, FALSE, "move_up">>,
     <<"DpadUp", FALSE, TRUE, "move_up">>,
     <<"DpadUp", TRUE, FALSE, "select_up">>,
     <<"DpadUp", TRUE, TRUE, "select_up">>,
     <<"DpadDown", FALSE, FALSE, "move_down">>,
     <<"DpadDown", FALSE, TRUE, "move_down">>,
     <<"DpadDown", TRUE, FALSE, "select_down">>,
     <<"DpadDown", TRUE, TRUE, "select_down">>,
     <<"ForwardDel", FALSE, FALSE, "delete">>,
     <<"ForwardDel", TRUE, FALSE, "delete">>,
     <<"ForwardDel", FALSE, TRUE, "delete_word">>,
     <<"ForwardDel", TRUE, TRUE, "delete_word">>,
     <<"Del", FALSE, FALSE, "backdelete">>,
     <<"Del", TRUE, FALSE, "backdelete">>,
     <<"Del", FALSE, TRUE, "backdelete_word">>,
     <<"Del", TRUE, TRUE, "backdelete_word">>,
     <<"A", FALSE, TRUE, "select_all">>,
     <<"A", TRUE, TRUE, "collapse_selection">>}

\* The text the specification has the fixed-text keys insert.
KeyInserts ==
    {<<"Enter", "\n">>, <<"NumpadEnter", "\n">>, <<"Space", " ">>}

Rows == {r \in KeyTable : r[1] = op.key /\ r[2] = op.shift /\ r[3] = op.ctrl}
Inserts == {r \in KeyInserts : r[1] = op.key}

\* C27: on_key_down maps the key, shift and ctrl of the event to one driver
\* operation: the method of the key's row for a key of the table, an insert
\* of the fixed text for Enter, NumpadEnter and Space, and for A without
\* ctrl and every other key an insert of the event's unicode character when
\* it carries one.
C27_KeyMapping ==
    KeyPressed =>
        /\ Cardinality(Rows) <= 1
        /\ \A r \in Rows : op.drv = r[4] /\ op.text = ""
        /\ \A r \in Inserts : op.drv = "insert_or_replace_selection" /\ op.text = r[2]
        /\ (Rows = {} /\ Inserts = {}) =>
               /\ \A c \in op.char :
                      op.drv = "insert_or_replace_selection" /\ op.text = c
               /\ (op.char = None => op.drv = "none")

\* C27, its case: Del with ctrl deleted the word before the caret.
C27_Witness ==
    /\ KeyPressed
    /\ op.key = "Del"
    /\ op.ctrl
    /\ ~op.shift
    /\ op.drv = "backdelete_word"

\* A key outside the named keys, A with ctrl counting as named.
Unmapped == Rows = {} /\ Inserts = {}

\* C28: on_key_down returns false exactly for an unmapped key whose event
\* carries no unicode character; in that case no driver method is called
\* and the PlainEditor keeps its generation, yet the blink timer has been
\* reset: start_time is the time of the call and cursor_visible is true.
C28_FalseOnlyWithoutChar ==
    /\ [](KeyPressed =>
            /\ ~op.handled <=> (Unmapped /\ op.char = None)
            /\ (~op.handled =>
                    /\ op.drv = "none"
                    /\ start_time = Some(op.at)
                    /\ cursor_visible))
    /\ [][(EdStep("on_key_down") /\ ~op'.handled) =>
              editor_generation' = editor_generation]_vars

\* C28, its case: an unmapped key without a character, pressed half a second
\* or more after the start, returned false and restarted the blink timer.
C28_Witness ==
    /\ KeyPressed
    /\ op.key = "B"
    /\ op.char = None
    /\ ~op.handled
    /\ op.at >= HalfSecond
    /\ start_time = Some(op.at)
    /\ cursor_visible

\* The callback of with_peer(h) has started on thread t and not returned.
CallbackOn(t, h) ==
    fn[t] = "with_peer" /\ pc[t] \in {"callback", "blocked"} /\ id[t] = h

\* The teardown hook of handle h has started on thread u and not returned.
HookOn(u, h) == HookRunning(u) /\ id[u] = h

\* C29: with_peer(h) against on_detached_from_window(h): the with_peer that
\* takes the lock either starts its callback, on an entry that is in the
\* table and whose hook has not started, or fails without a callback; a
\* callback that returns does so with the entry still in the table; no
\* entry is removed while a callback runs on it; a callback and the
\* teardown hook of the same handle never run at the same time.
C29_DispatchOrDetachFirst ==
    /\ [](\A h \in Handles : \A t, u \in Threads :
             /\ ~(CallbackOn(t, h) /\ HookOn(u, h))
             /\ CallbackOn(t, h) => (h \in DOMAIN PEER_MAP /\ hookCount[h] = 0))
    /\ [][\A t \in Threads :
            /\ (pc[t] = "lock" /\ fn[t] = "with_peer" /\ pc'[t] # "lock") =>
                   /\ pc'[t] \in {"callback", "panicked"}
                   /\ pc'[t] = "callback" =>
                          (id[t] \in DOMAIN PEER_MAP /\ hookCount[id[t]] = 0)
            /\ (pc[t] = "callback" /\ fn[t] = "with_peer" /\ pc'[t] = "idle") =>
                   (id[t] \in DOMAIN PEER_MAP' /\ hookCount'[id[t]] = 0)]_vars
    /\ [][\A h \in Handles :
            (h \in DOMAIN PEER_MAP /\ h \notin DOMAIN PEER_MAP') =>
                \A t \in Threads : ~CallbackOn(t, h)]_vars

\* C29, its case: a with_peer waits for the table lock while the teardown
\* hook of its handle runs on another thread.
C29_Witness ==
    \E t, u \in Threads :
        /\ t # u
        /\ pc[t] = "lock" /\ fn[t] = "with_peer"
        /\ pc[u] = "hook" /\ fn[u] = Detach
        /\ id[u] = id[t]

\* C30: a thread of with_peer or on_detached_from_window that fails leaves
\* the table lock poisoned, whether it failed on an absent handle or inside
\* its callback or hook; the lock stays poisoned; from then on no callback
\* or hook runs, and every register_view_peer, with_peer and
\* on_detached_from_window that reaches the lock fails, leaving the table
\* and the hooks as they were.
C30_PoisonedForGood ==
    /\ [][\A t \in Threads :
            (pc[t] # "panicked" /\ pc'[t] = "panicked"
                 /\ fn[t] \in {"with_peer", Detach}) => poisoned']_vars
    /\ [][poisoned => poisoned']_vars
    /\ [](poisoned => \A t \in Threads : pc[t] \notin {"callback", "hook", "blocked"})
    /\ [][\A t \in Threads :
            (poisoned /\ pc[t] = "lock" /\ fn[t] \in {Register, "with_peer", Detach}
                 /\ pc'[t] # "lock") =>
                /\ pc'[t] = "panicked"
                /\ PEER_MAP' = PEER_MAP
                /\ hookCount' = hookCount]_vars

\* C30, its case: after a failure on another thread, a with_peer on a
\* handle that is still registered has failed.
C30_Witness ==
    \E t, u \in Threads :
        /\ t # u
        /\ poisoned
        /\ pc[t] = "panicked" /\ fn[t] = "with_peer"
        /\ id[t] \in DOMAIN PEER_MAP
        /\ pc[u] = "panicked"

\* The callback of a with_peer on thread t has called the registry.
Reentered(t) == fn[t] = "with_peer" /\ inner[t] # NoInner

\* C31: a callback running inside with_peer that calls with_peer,
\* register_view_peer or on_detached_from_window on its own thread does so
\* with the table lock held by its own dispatch; the call does not get the
\* lock, touches no entry of the table, and the callback never returns: the
\* thread stays blocked or has failed.
C31_CallbackReentryStuck ==
    /\ [](\A t \in Threads : Reentered(t) => pc[t] \in {"blocked", "panicked"})
    /\ [][\A t \in Threads :
            /\ (pc[t] = "callback" /\ fn[t] = "with_peer" /\ inner'[t] # inner[t]) =>
                   /\ lock = {t}
                   /\ inner'[t].fn \in InnerFns
                   /\ pc'[t] \in {"blocked", "panicked"}
                   /\ PEER_MAP' = PEER_MAP
                   /\ hookCount' = hookCount
            /\ Reentered(t) => (pc'[t] = pc[t] /\ fn'[t] = fn[t])]_vars

\* C31, its case: a with_peer callback that called on_detached_from_window
\* is blocked on the lock of its own dispatch, with its entry still in the
\* table.
C31_Witness ==
    \E t \in Threads :
        /\ fn[t] = "with_peer"
        /\ pc[t] = "blocked"
        /\ inner[t].fn = Detach
        /\ lock = {t}
        /\ id[t] \in DOMAIN PEER_MAP

\* C32: every key of the table is below the counter; a handle that
\* register_view_peer returned is a key of the table until its own detach;
\* an entry leaves the table only in the on_detached_from_window of its own
\* handle; register_view_peer inserts at a key that is not in the table, so
\* it replaces no entry; no step changes the object of an entry that stays.
C32_EntriesStayPut ==
    /\ [](\A h \in DOMAIN PEER_MAP : h >= 0 /\ h < NEXT_PEER_ID)
    /\ [](\A i \in 1..Len(returned) :
              returned[i] \in DOMAIN PEER_MAP \/ Detached(returned[i]))
    /\ [][\A h \in DOMAIN PEER_MAP :
            /\ h \notin DOMAIN PEER_MAP' =>
                   \E t \in Threads :
                       /\ fn[t] = Detach /\ id[t] = h
                       /\ pc[t] = "lock" /\ pc'[t] = "hook"
            /\ h \in DOMAIN PEER_MAP' => PEER_MAP'[h] = PEER_MAP[h]]_vars
    /\ [][\A t \in Threads :
            (fn[t] = Register /\ pc[t] = "lock" /\ pc'[t] = "idle") =>
                /\ id[t] \notin DOMAIN PEER_MAP
                /\ DOMAIN PEER_MAP' = DOMAIN PEER_MAP \cup {id[t]}]_vars

\* C32, its case: the teardown hook of handle 0 runs, its entry removed,
\* and the entry of handle 1 is still in the table.
C32_Witness ==
    \E u \in Threads :
        /\ pc[u] = "hook" /\ fn[u] = Detach /\ id[u] = 0
        /\ DOMAIN PEER_MAP = {1}
        /\ returned = <<0, 1>>

\* C33: whenever the blink timer is present the blink period is 500 ms, so
\* the divisors of cursor_blink (the period in milliseconds) and of
\* next_blink_time (the period in nanoseconds) are not zero; the period is
\* zero only in states without a timer.
C33_TimerHasPeriod ==
    /\ blink_period \in {0, from_millis(BlinkPeriodMs)}
    /\ start_time # None =>
           /\ blink_period = from_millis(BlinkPeriodMs)
           /\ as_millis(blink_period) # 0
           /\ as_nanos(blink_period) # 0
    /\ blink_period = 0 => start_time = None

\* C33, its case: next_blink_time divided by the period of a timer that was
\* set more than one period earlier.
C33_Witness ==
    \E s \in start_time :
        /\ op.fn = "next_blink_time"
        /\ op.at - s >= from_millis(BlinkPeriodMs)
        /\ blink_period = from_millis(BlinkPeriodMs)
        /\ op.next # None

\* The operations of the blink timer.
BlinkOps == {"cursor_reset", "disable_blink", "cursor_blink", "next_blink_time"}

\* C34: cursor_reset, disable_blink, cursor_blink and next_blink_time call
\* no driver method (text and selection stay) and leave the generation
\* token as it was, also when they change cursor_visible.
C34_BlinkLeavesGeneration ==
    [][\A f \in BlinkOps :
          EdStep(f) =>
              /\ editor_generation' = editor_generation
              /\ op'.drv = "none"
              /\ op'.text = ""
              /\ (cursor_visible' # cursor_visible =>
                      editor_generation' = editor_generation)]_vars

\* C34, its case: cursor_blink hid the caret of an editor whose token had
\* moved before.
C34_Witness ==
    /\ op.fn = "cursor_blink"
    /\ start_time # None
    /\ ~cursor_visible
    /\ editor_generation > 0

\* The last call converted a byte offset of the text, 0..=byte length.
ByteOffsetConverted(f) ==
    call.fn = f /\ call.arg <= Utf8Len(raw_text)

\* An index beyond the text's length in the source space converts to the
\* text's length in the target space.
ClampedPastEnd ==
    (call # NoCall /\ call.arg > SourceLen(call.fn, raw_text))
        => call.ret = TargetLen(call.fn, raw_text)

\* C35, as stated: for every byte offset b of the text,
\* utf8_to_usv_index(b) <= utf8_to_utf16_index(b) <= b, and an index beyond
\* the source length converts to the target length.
C35_OrderedBelowOffset ==
    /\ ByteOffsetConverted("utf8_to_utf16_index") =>
           /\ utf8_to_usv_index(raw_text, call.arg) <= call.ret
           /\ call.ret <= call.arg
    /\ ByteOffsetConverted("utf8_to_usv_index") =>
           call.ret <= utf8_to_utf16_index(raw_text, call.arg)
    /\ ClampedPastEnd

\* C35, amended: for every byte offset b of the text,
\* utf8_to_usv_index(b) <= utf8_to_utf16_index(b) <= b + 1, with
\* utf8_to_utf16_index(b) <= b when b is on a scalar boundary, and an index
\* beyond the source length converts to the target length.
C35_OrderedUpToRounding ==
    /\ ByteOffsetConverted("utf8_to_utf16_index") =>
           /\ utf8_to_usv_index(raw_text, call.arg) <= call.ret
           /\ call.ret <= call.arg + 1
           /\ (call.arg \in Utf8Boundaries(raw_text) => call.ret <= call.arg)
    /\ ByteOffsetConverted("utf8_to_usv_index") =>
           call.ret <= utf8_to_utf16_index(raw_text, call.arg)
    /\ ClampedPastEnd

\* C35, its case: the byte offset one byte into a four-byte scalar was
\* converted to the code-unit offset after its surrogate pair.
C35_Witness ==
    /\ raw_text = <<128512, 233>>
    /\ call = [fn |-> "utf8_to_utf16_index", arg |-> 1, ret |-> 2]
    /\ utf8_to_usv_index(raw_text, 1) = 1

====
